---------------------------- MODULE Spec2Model ----------------------------
(***************************************************************************)
(* Sensor fusion and control loop of the bike simulator, modelled from     *)
(* src/p17_logging_fix.py: the socket thread that frames JSON heading      *)
(* records (run_socket_server), the BLE cadence path                       *)
(* (find_and_connect_wahoo, notification_handler, parse_csc_measurement),  *)
(* the policy (process_heading_data) and the fixed-tick driver             *)
(* (carla_control_loop).                                                   *)
(*                                                                         *)
(* Text is a sequence of one-character strings.  Bytes on the wire are     *)
(* the same one-character strings for ASCII, plus the two bytes "C3" "A9"  *)
(* of the UTF-8 encoding of U+00E9, which decode to the character "U+E9".  *)
(* Throttle and event time are exact fractions, their rounding in double   *)
(* precision is not modelled; steer is an IEEE-754 double.                 *)
(***************************************************************************)
EXTENDS Integers, Sequences, FiniteSets, TLC

VARIABLES
    client,                 \* the peer of the heading socket: [records, stream, pos, chunks]
    sock,                   \* run_socket_server: "accept" | "recv" | "closed" | "failed"
    buffer,                 \* run_socket_server's local text buffer
    latest_heading_data,    \* global: last decoded JSON value, None at start
    emitted,                \* history: the records published by the last recv
    published,              \* history: every record published (framer specification)
    sensor,                 \* the notifications the peripheral has yet to send
    notified,               \* history: [data, raised] of the last notification
    shared_data,            \* global dict: revolutions, event time, last_throttle
    no_rotation_count,      \* global
    notification_count,     \* global
    ble,                    \* find_and_connect_wahoo: where the coroutine stands
    wahoo_device,           \* find_and_connect_wahoo's local: the device found, or "None"
    attempt,                \* find_and_connect_wahoo: connection attempts started
    clock,                  \* time.time() - start_time of the discovery, in seconds
    ctl,                    \* carla_control_loop: where the coroutine stands
    data_counter,           \* carla_control_loop's local
    control,                \* last VehicleControl applied to bike_actor, or NoControl
    stalled_evals,          \* history: evaluations in a row made in the stall branch
    key,                    \* the operator's 'k' key: "up" | "down" | "released"
    commands,               \* history: VehicleControls applied to bike_actor
    faults,                 \* the environment: which calls of this run raise
    sim,                    \* what carla_control_loop holds in the simulator
    ticks                   \* history: iterations of the while loop begun (schedule
                            \* specification)

vars == << client, sock, buffer, latest_heading_data, emitted, published,
           sensor, notified, shared_data, no_rotation_count, notification_count,
           ble, wahoo_device, attempt, clock, ctl, data_counter, control, stalled_evals,
           key, commands, faults, sim, ticks >>

socketVars == << client, sock, buffer, latest_heading_data, emitted, published >>
cadenceVars == << sensor, notified, shared_data, no_rotation_count, notification_count >>
linkVars == << ble, wahoo_device, attempt, clock >>
loopVars == << ctl, data_counter, control, stalled_evals, key, commands, faults, sim, ticks >>

-----------------------------------------------------------------------------
(* Bounds of the model *)

MaxRecs == 2            \* records in a framer stream
MaxPayloadLen == 8      \* bytes in a notification payload of the decoder specification
MaxNotifications == 3   \* notifications delivered in a run
MaxDataCounter == 10    \* ticks that found a heading in a run
MaxTicks == 12          \* iterations counted in a run of the schedule specification

-----------------------------------------------------------------------------
(* JSON values: Python's None, int, str, list and dict *)

None == [t |-> "null", v |-> 0]
Num(n) == [t |-> "num", v |-> n]
Str(cs) == [t |-> "str", v |-> cs]
Arr(vs) == [t |-> "arr", v |-> vs]
Obj(d) == [t |-> "obj", v |-> d]

EmptyDict == [k \in {} |-> None]
DictPut(d, k, x) == [j \in (DOMAIN d) \cup {k} |-> IF j = k THEN x ELSE d[j]]

Digits == {"0", "1", "2", "3", "4", "5", "6", "7", "8", "9"}
DigitVal(c) ==
    CASE c = "0" -> 0 [] c = "1" -> 1 [] c = "2" -> 2 [] c = "3" -> 3
      [] c = "4" -> 4 [] c = "5" -> 5 [] c = "6" -> 6 [] c = "7" -> 7
      [] c = "8" -> 8 [] c = "9" -> 9

-----------------------------------------------------------------------------
(* bytes.decode(): strict UTF-8 *)

DecodeFail == [ok |-> FALSE, text |-> << >>]

RECURSIVE Utf8Decode(_)
Utf8Decode(data) ==
    IF data = << >> THEN [ok |-> TRUE, text |-> << >>]
    ELSE IF Head(data) = "A9" THEN DecodeFail              \* invalid start byte
    ELSE IF Head(data) = "C3" THEN
        IF Len(data) >= 2 /\ data[2] = "A9"
        THEN LET r == Utf8Decode(SubSeq(data, 3, Len(data)))
             IN  IF r.ok THEN [ok |-> TRUE, text |-> << "U+E9" >> \o r.text]
                 ELSE DecodeFail
        ELSE DecodeFail                                    \* unexpected end / bad continuation
    ELSE LET r == Utf8Decode(Tail(data))
         IN  IF r.ok THEN [ok |-> TRUE, text |-> << Head(data) >> \o r.text]
             ELSE DecodeFail

-----------------------------------------------------------------------------
(* json.JSONDecoder().raw_decode(s): positions are 1-based, `end` is the    *)
(* position of the first character after the value.                         *)

IsWs(c) == c = " "
CharAt(s, p) == IF p >= 1 /\ p <= Len(s) THEN s[p] ELSE ""

RECURSIVE SkipWs(_, _)
SkipWs(s, p) == IF p <= Len(s) /\ IsWs(s[p]) THEN SkipWs(s, p + 1) ELSE p

ParseFail == [ok |-> FALSE, val |-> None, end |-> 0]
ParseOk(x, e) == [ok |-> TRUE, val |-> x, end |-> e]

\* scanstring(s, end): `p` is the position after the opening quote
RECURSIVE ScanString(_, _, _)
ScanString(s, p, acc) ==
    IF p > Len(s) THEN ParseFail                           \* unterminated string
    ELSE IF s[p] = "\"" THEN ParseOk(acc, p + 1)
    ELSE ScanString(s, p + 1, Append(acc, s[p]))

\* NUMBER_RE: -?(0|[1-9]\d*) ; sign, fraction and exponent are outside the alphabet
RECURSIVE ScanDigits(_, _, _)
ScanDigits(s, p, n) ==
    IF p <= Len(s) /\ s[p] \in Digits
    THEN ScanDigits(s, p + 1, 10 * n + DigitVal(s[p]))
    ELSE ParseOk(Num(n), p)

MatchNumber(s, p) ==
    IF s[p] = "0" THEN ParseOk(Num(0), p + 1)
    ELSE ScanDigits(s, p + 1, DigitVal(s[p]))

RECURSIVE ScanOnce(_, _)
RECURSIVE ObjectPairs(_, _, _)
RECURSIVE ArrayItems(_, _, _)

\* JSONObject's while loop: `p` is the position after the opening quote of a key
ObjectPairs(s, p, acc) ==
    LET k == ScanString(s, p, << >>)
    IN  IF ~k.ok THEN ParseFail
        ELSE LET e1 == IF CharAt(s, k.end) # ":" THEN SkipWs(s, k.end) ELSE k.end
             IN  IF CharAt(s, e1) # ":" THEN ParseFail
                 ELSE LET x == ScanOnce(s, SkipWs(s, e1 + 1))
                      IN  IF ~x.ok THEN ParseFail
                          ELSE LET acc2 == DictPut(acc, k.val, x.val)
                                   e4 == SkipWs(s, x.end)
                               IN  IF CharAt(s, e4) = "}" THEN ParseOk(Obj(acc2), e4 + 1)
                                   ELSE IF CharAt(s, e4) # "," THEN ParseFail
                                   ELSE LET e5 == SkipWs(s, e4 + 1)
                                        IN  IF CharAt(s, e5) # "\"" THEN ParseFail
                                            ELSE ObjectPairs(s, e5 + 1, acc2)

\* JSONObject(s, end): `p` is the position after "{"
JSONObject(s, p) ==
    IF CharAt(s, p) # "\"" THEN
        LET e2 == SkipWs(s, p)
        IN  IF CharAt(s, e2) = "}" THEN ParseOk(Obj(EmptyDict), e2 + 1)
            ELSE IF CharAt(s, e2) # "\"" THEN ParseFail
            ELSE ObjectPairs(s, e2 + 1, EmptyDict)
    ELSE ObjectPairs(s, p + 1, EmptyDict)

\* JSONArray's while loop: `p` is the position of the next item
ArrayItems(s, p, acc) ==
    LET x == ScanOnce(s, p)
    IN  IF ~x.ok THEN ParseFail
        ELSE LET acc2 == Append(acc, x.val)
                 e1 == SkipWs(s, x.end)
             IN  IF CharAt(s, e1) = "]" THEN ParseOk(Arr(acc2), e1 + 1)
                 ELSE IF CharAt(s, e1) # "," THEN ParseFail
                 ELSE ArrayItems(s, SkipWs(s, e1 + 1), acc2)

\* JSONArray(s, end): `p` is the position after "["
JSONArray(s, p) ==
    LET e1 == SkipWs(s, p)
    IN  IF CharAt(s, e1) = "]" THEN ParseOk(Arr(<< >>), e1 + 1)
        ELSE ArrayItems(s, e1, << >>)

\* scan_once(string, idx)
ScanOnce(s, p) ==
    IF p > Len(s) THEN ParseFail                           \* StopIteration
    ELSE IF s[p] = "\"" THEN
        LET r == ScanString(s, p + 1, << >>)
        IN  IF r.ok THEN ParseOk(Str(r.val), r.end) ELSE ParseFail
    ELSE IF s[p] = "{" THEN JSONObject(s, p + 1)
    ELSE IF s[p] = "[" THEN JSONArray(s, p + 1)
    ELSE IF s[p] = "n" /\ SubSeq(s, p, p + 3) = << "n", "u", "l", "l" >>
        THEN ParseOk(None, p + 4)
    ELSE IF s[p] \in Digits THEN MatchNumber(s, p)
    ELSE ParseFail                                         \* StopIteration

\* raw_decode does not skip leading whitespace
raw_decode(s) == ScanOnce(s, 1)

\* str.strip()
RECURSIVE LStrip(_)
LStrip(s) == IF s # << >> /\ IsWs(Head(s)) THEN LStrip(Tail(s)) ELSE s
RECURSIVE RStrip(_)
RStrip(s) ==
    IF s # << >> /\ IsWs(s[Len(s)]) THEN RStrip(SubSeq(s, 1, Len(s) - 1)) ELSE s
Strip(s) == RStrip(LStrip(s))

-----------------------------------------------------------------------------
(* run_socket_server: one pass of the receive loop on a non-empty chunk *)

\* Drain with an `if` for the `while`: at most one record per chunk
DrainOnce(buf, latest, out) ==
    LET r == raw_decode(buf)
    IN  IF ~r.ok
        THEN [buffer |-> buf, latest |-> latest, emitted |-> out]
        ELSE [buffer |-> Strip(SubSeq(buf, r.end, Len(buf))), latest |-> r.val,
              emitted |-> Append(out, r.val)]

\* the inner `while True`: parse records off the front of the buffer
RECURSIVE Drain(_, _, _)
Drain(buf, latest, out) ==
    LET r == raw_decode(buf)
    IN  IF ~r.ok
        THEN [buffer |-> buf, latest |-> latest, emitted |-> out]   \* JSONDecodeError: break
        ELSE Drain(Strip(SubSeq(buf, r.end, Len(buf))), r.val, Append(out, r.val))

\* lines 82-99: decode the chunk, append it, drain; a chunk that does not
\* decode is reported ("Socket receive error") and dropped
Feed(buf, latest, data) ==
    LET d == Utf8Decode(data)
    IN  IF ~d.ok
        THEN [buffer |-> buf, latest |-> latest, emitted |-> << >>]
        ELSE Drain(buf \o d.text, latest, << >>)

-----------------------------------------------------------------------------
(* Exact fractions n/d in lowest terms, d > 0, for Python's floats *)

Abs(x) == IF x < 0 THEN -x ELSE x

RECURSIVE GCD(_, _)
GCD(a, b) == IF b = 0 THEN a ELSE GCD(b, a % b)

Rat(n, d) == LET g == GCD(Abs(n), d) IN [n |-> n \div g, d |-> d \div g]
Zero == Rat(0, 1)
One == Rat(1, 1)
RatMul(a, b) == Rat(a.n * b.n, a.d * b.d)
RatAdd(a, b) == Rat(a.n * b.d + b.n * a.d, a.d * b.d)
RatNeg(a) == [n |-> -a.n, d |-> a.d]
RatLt(a, b) ==
    LET g == GCD(a.d, b.d) IN a.n * (b.d \div g) < b.n * (a.d \div g)
RatLe(a, b) == a = b \/ RatLt(a, b)
RatMax(a, b) == IF RatLt(a, b) THEN b ELSE a          \* max(a, b)
RatMin(a, b) == IF RatLt(b, a) THEN b ELSE a          \* min(a, b)

-----------------------------------------------------------------------------
(* parse_csc_measurement and notification_handler *)

\* Python's data[lo:hi] on a bytes object (0-based, clamped to the length)
Slice(data, lo, hi) == SubSeq(data, lo + 1, IF hi < Len(data) THEN hi ELSE Len(data))

\* FromBytesLittle with byteorder='big'
RECURSIVE FromBytesBig(_)
FromBytesBig(bs) ==
    IF bs = << >> THEN 0 ELSE bs[Len(bs)] + 256 * FromBytesBig(SubSeq(bs, 1, Len(bs) - 1))

\* int.from_bytes(bs, byteorder='little')
RECURSIVE FromBytesLittle(_)
FromBytesLittle(bs) ==
    IF bs = << >> THEN 0 ELSE Head(bs) + 256 * FromBytesLittle(Tail(bs))

\* SetItem as dict.setdefault: a key already present keeps its value
SetItemOnce(sd, k, x) ==
    IF k \in DOMAIN sd THEN sd ELSE [j \in (DOMAIN sd) \cup {k} |-> IF j = k THEN x ELSE sd[j]]

\* shared_data[k] = x
SetItem(sd, k, x) == [j \in (DOMAIN sd) \cup {k} |-> IF j = k THEN x ELSE sd[j]]

\* parse_csc_measurement adding the decoded count to the stored one
ParseCscAccumulating(sd, data) ==
    IF Len(data) = 0 THEN [raised |-> TRUE, shared |-> sd]
    ELSE LET cumulative_wheel_revolutions ==
                 sd["cumulative_wheel_revolutions"] + FromBytesLittle(Slice(data, 1, 5))
             last_wheel_event_time_seconds == Rat(FromBytesLittle(Slice(data, 5, 7)), 1024)
         IN  [raised |-> FALSE,
              shared |-> SetItem(SetItem(sd, "cumulative_wheel_revolutions",
                                         cumulative_wheel_revolutions),
                                 "last_wheel_event_time", last_wheel_event_time_seconds)]

\* lines 105-124: data[0] raises IndexError on an empty payload; the slices
\* never raise
parse_csc_measurement(sd, data) ==
    IF Len(data) = 0 THEN [raised |-> TRUE, shared |-> sd]
    ELSE LET cumulative_wheel_revolutions == FromBytesLittle(Slice(data, 1, 5))
             last_wheel_event_time_raw == FromBytesLittle(Slice(data, 5, 7))
             last_wheel_event_time_seconds == Rat(last_wheel_event_time_raw, 1024)
         IN  [raised |-> FALSE,
              shared |-> SetItem(SetItem(sd, "cumulative_wheel_revolutions",
                                         cumulative_wheel_revolutions),
                                 "last_wheel_event_time", last_wheel_event_time_seconds)]

\* notification_handler without the `else` of lines 195-196
NotificationHandlerNoReset(data) ==
    LET previous_revolutions == shared_data["cumulative_wheel_revolutions"]
        r == parse_csc_measurement(shared_data, data)
        current_revolutions == r.shared["cumulative_wheel_revolutions"]
    IN  /\ notification_count' = notification_count + 1
        /\ notified' = << [data |-> data, raised |-> r.raised] >>
        /\ IF r.raised
           THEN UNCHANGED << shared_data, no_rotation_count, stalled_evals >>
           ELSE /\ shared_data' = r.shared
                /\ UNCHANGED stalled_evals
                /\ no_rotation_count' = IF current_revolutions = previous_revolutions
                                        THEN no_rotation_count + 1 ELSE no_rotation_count

\* lines 179-196
notification_handler(data) ==
    LET previous_revolutions == shared_data["cumulative_wheel_revolutions"]
        r == parse_csc_measurement(shared_data, data)
        current_revolutions == r.shared["cumulative_wheel_revolutions"]
    IN  /\ notification_count' = notification_count + 1
        /\ notified' = << [data |-> data, raised |-> r.raised] >>
        /\ IF r.raised
           THEN UNCHANGED << shared_data, no_rotation_count, stalled_evals >>
           ELSE /\ shared_data' = r.shared
                /\ IF current_revolutions = previous_revolutions
                   THEN /\ no_rotation_count' = no_rotation_count + 1
                        /\ UNCHANGED stalled_evals
                   ELSE /\ no_rotation_count' = 0
                        /\ stalled_evals' = 0

-----------------------------------------------------------------------------
(* process_heading_data *)

stall_threshold == 2        \* `if no_rotation_count >= 2`
low_revolutions == 5        \* `elif revolutions < 5`
\* process_every_nth for a loop that evaluates on every other data tick
ProcessEveryOther == stall_threshold
process_every_nth == 5

locationTrueHeading == << "h" >>    \* the key, shortened to one character

\* float(x) for the values json can produce
RECURSIVE DigitsValue(_, _)
DigitsValue(cs, n) ==
    IF cs = << >> THEN n ELSE DigitsValue(Tail(cs), 10 * n + DigitVal(Head(cs)))

float(x) ==
    IF x.t = "num" THEN [ok |-> TRUE, val |-> Rat(x.v, 1)]
    ELSE IF x.t = "str" THEN
        LET cs == Strip(x.v)
        IN  IF cs # << >> /\ \A i \in 1..Len(cs) : cs[i] \in Digits
            THEN [ok |-> TRUE, val |-> Rat(DigitsValue(cs, 0), 1)]
            ELSE [ok |-> FALSE, val |-> Zero]              \* ValueError
    ELSE [ok |-> FALSE, val |-> Zero]                      \* TypeError

\* An IEEE-754 double: (-1)^neg * (hi * 2^26 + lo) * 2^e, with the 53-bit
\* significand hi * 2^26 + lo in [2^52, 2^53), or all zero for 0.0
Dbl(neg, hi, lo, e) == [neg |-> neg, hi |-> hi, lo |-> lo, e |-> e]
DblZero == Dbl(FALSE, 0, 0, 0)
DblOne == Dbl(FALSE, 67108864, 0, -52)
DblIsZero(x) == x.hi = 0 /\ x.lo = 0
DblNeg(x) == IF DblIsZero(x) THEN x ELSE [x EXCEPT !.neg = ~@]
\* x * 0.5, exact for a normal double
DblHalf(x) == IF DblIsZero(x) THEN x ELSE [x EXCEPT !.e = @ - 1]
\* -1.0 <= x <= 1.0
DblAbsLeOne(x) == DblIsZero(x) \/ x.e < -52 \/ (x.e = -52 /\ x.hi = 67108864 /\ x.lo = 0)
\* max(-1.0, min(1.0, x))
DblClamp(x) == IF DblAbsLeOne(x) THEN x ELSE IF x.neg THEN DblNeg(DblOne) ELSE DblOne

\* math.sin(math.radians(h)) as CPython computes it in double precision, for
\* the whole degrees the model feeds in
SinDeg(h) ==
    CASE h = 0 -> Dbl(FALSE, 0, 0, 0)    \* 0.0
      [] h = 30 -> Dbl(FALSE, 134217727, 67108863, -54)    \* 0.49999999999999994
      [] h = 45 -> Dbl(FALSE, 94906265, 41892812, -53)    \* 0.7071067811865475
      [] h = 90 -> Dbl(FALSE, 67108864, 0, -52)    \* 1.0
      [] h = 150 -> Dbl(FALSE, 134217727, 67108863, -54)    \* 0.49999999999999994
      [] h = 180 -> Dbl(FALSE, 74025356, 51665927, -105)    \* 1.2246467991473532e-16
      [] h = 210 -> Dbl(TRUE, 67108864, 1, -53)    \* -0.5000000000000001
      [] h = 270 -> Dbl(TRUE, 67108864, 0, -52)    \* -1.0
      [] h = 330 -> Dbl(TRUE, 67108864, 4, -53)    \* -0.5000000000000004
      [] h = 360 -> Dbl(TRUE, 74025356, 51665927, -104)    \* -2.4492935982947064e-16
      [] h = 390 -> Dbl(FALSE, 67108864, 0, -53)    \* 0.5
      [] h = 405 -> Dbl(FALSE, 94906265, 41892811, -53)    \* 0.7071067811865474
      [] h = 450 -> Dbl(FALSE, 67108864, 0, -52)    \* 1.0
      [] h = 510 -> Dbl(FALSE, 134217727, 67108860, -54)    \* 0.4999999999999998
      [] h = 540 -> Dbl(FALSE, 111038035, 10390026, -104)    \* 3.6739403974420594e-16
      [] h = 570 -> Dbl(TRUE, 134217727, 67108849, -54)    \* -0.49999999999999917
      [] h = 630 -> Dbl(TRUE, 67108864, 0, -52)    \* -1.0
      [] h = 690 -> Dbl(TRUE, 134217727, 67108862, -54)    \* -0.4999999999999999
      [] h = 720 -> Dbl(TRUE, 74025356, 51665927, -103)    \* -4.898587196589413e-16
      [] h = 750 -> Dbl(FALSE, 134217727, 67108847, -54)    \* 0.49999999999999906
      [] h = 765 -> Dbl(FALSE, 94906265, 41892815, -53)    \* 0.7071067811865478
      [] h = 810 -> Dbl(FALSE, 67108864, 0, -52)    \* 1.0
      [] h = 870 -> Dbl(FALSE, 67108864, 0, -53)    \* 0.5
      [] h = 900 -> Dbl(FALSE, 92531695, 64582409, -103)    \* 6.123233995736766e-16
      [] h = 930 -> Dbl(TRUE, 134217727, 67108845, -54)    \* -0.49999999999999895
      [] h = 990 -> Dbl(TRUE, 67108864, 0, -52)    \* -1.0
      [] h = 1050 -> Dbl(TRUE, 67108864, 1, -53)    \* -0.5000000000000001

\* Fallback storing the throttle it returns
FallbackStoring(sd) ==
    [raised |-> TRUE, steer |-> DblZero, throttle |-> Rat(1, 10),
     shared |-> SetItem(sd, "last_throttle", Rat(1, 10))]

\* lines 225-227: `except Exception`: report, return 0.0, 0.1
Fallback(sd) == [raised |-> TRUE, steer |-> DblZero, throttle |-> Rat(1, 10), shared |-> sd]

\* SelectThrottle with the constants of warm_up1.py: three stalls, decay 0.8
SelectThrottleWarmUp(sd, stalls) ==
    LET revolutions == sd["cumulative_wheel_revolutions"]
    IN  IF stalls >= 3
        THEN RatMax(Zero, RatMul(sd["last_throttle"], Rat(8, 10)))
        ELSE IF revolutions < low_revolutions
        THEN RatMax(Zero, RatMul(sd["last_throttle"], Rat(9, 10)))
        ELSE RatMin(RatAdd(Rat(1, 10), RatMul(Rat(revolutions, 1), Rat(15, 1000))), One)

\* SelectThrottle without the cap of line 221
SelectThrottleUncapped(sd, stalls) ==
    LET revolutions == sd["cumulative_wheel_revolutions"]
    IN  IF stalls >= stall_threshold
        THEN RatMax(Zero, RatMul(sd["last_throttle"], Rat(3, 10)))
        ELSE IF revolutions < low_revolutions
        THEN RatMax(Zero, RatMul(sd["last_throttle"], Rat(9, 10)))
        ELSE RatAdd(Rat(1, 10), RatMul(Rat(revolutions, 1), Rat(15, 1000)))

\* lines 214-221: the throttle, given that shared_data has last_throttle
\* wherever a branch reads it
SelectThrottle(sd, stalls) ==
    LET revolutions == sd["cumulative_wheel_revolutions"]
    IN  IF stalls >= stall_threshold
        THEN RatMax(Zero, RatMul(sd["last_throttle"], Rat(3, 10)))
        ELSE IF revolutions < low_revolutions
        THEN RatMax(Zero, RatMul(sd["last_throttle"], Rat(9, 10)))
        ELSE RatMin(RatAdd(Rat(1, 10), RatMul(Rat(revolutions, 1), Rat(15, 1000))), One)

\* which branches read shared_data["last_throttle"]
ReadsLastThrottle(sd, stalls) ==
    stalls >= stall_threshold \/ sd["cumulative_wheel_revolutions"] < low_revolutions

\* lines 202-227
process_heading_data(data, sd, stalls) ==
    IF data.t # "obj" THEN Fallback(sd)                    \* no .get: AttributeError
    ELSE LET x == IF locationTrueHeading \in DOMAIN data.v
                  THEN data.v[locationTrueHeading] ELSE Num(0)
             heading == float(x)
         IN  IF ~heading.ok THEN Fallback(sd)
             ELSE LET steer == DblClamp(DblHalf(SinDeg(heading.val.n)))
                  IN  IF ReadsLastThrottle(sd, stalls) /\ "last_throttle" \notin DOMAIN sd
                      THEN Fallback(sd)                    \* KeyError
                      ELSE LET throttle == SelectThrottle(sd, stalls)
                           IN  [raised |-> FALSE, steer |-> steer, throttle |-> throttle,
                                shared |-> SetItem(sd, "last_throttle", throttle)]

-----------------------------------------------------------------------------
(* The process: main() gathers find_and_connect_wahoo and carla_control_loop *)
(* on one event loop; run_socket_server is a daemon thread.                  *)

LinkEnded == ble \in {"not_found", "released", "failed", "cancelled"}
LoopEnded == ctl \in {"stopped", "crashed"}
\* asyncio.run(main()) has returned or raised: the daemon thread is gone too
Exited == LinkEnded /\ LoopEnded

\* LoopMayRun had main awaited the two coroutines one after the other
LoopAfterLink == LinkEnded

\* asyncio.gather starts both coroutines: neither awaits the other
LoopMayRun == TRUE
LinkMayRun == TRUE

-----------------------------------------------------------------------------
(* run_socket_server *)

\* the peer connects: s.accept() returns
Accept ==
    /\ sock = "accept" /\ ~Exited
    /\ ~faults.bind
    /\ sock' = "recv"
    /\ UNCHANGED << client, buffer, latest_heading_data, emitted, published >>
    /\ UNCHANGED << cadenceVars, linkVars, loopVars >>

\* conn.recv(1024) returns the non-empty chunk `data`
RecvChunk(data) ==
    LET r == Feed(buffer, latest_heading_data, data)
    IN  /\ sock = "recv" /\ ~Exited
        /\ buffer' = r.buffer
        /\ latest_heading_data' = r.latest
        /\ emitted' = r.emitted
        /\ UNCHANGED sock
        /\ UNCHANGED << cadenceVars, linkVars, loopVars >>

\* conn.recv(1024) returns b"": the peer closed, the thread ends
RecvEnd ==
    /\ sock = "recv" /\ ~Exited
    /\ client.pos = Len(client.stream)
    /\ sock' = "closed"
    /\ UNCHANGED << client, buffer, latest_heading_data, emitted, published >>
    /\ UNCHANGED << cadenceVars, linkVars, loopVars >>

\* the chunks the peer of the system specification sends, one record each
ChunkHeading90 == << "{", "\"", "h", "\"", ":", "9", "0", "}" >>
ChunkNoHeading == << "{", "\"", "k", "\"", ":", "1", "}" >>
ChunkBadHeading == << "{", "\"", "h", "\"", ":", "\"", "k", "\"", "}" >>
ChunkEmptyObject == << "{", "}" >>
ChunkNull == << "n", "u", "l", "l" >>
ChunkNumber == << "5" >>
ChunkString == << "\"", "k", "\"" >>
ChunkArray == << "[", "1", "]" >>
HeadingChunks ==
    { ChunkHeading90, ChunkNoHeading, ChunkBadHeading, ChunkEmptyObject, ChunkNull,
      ChunkNumber, ChunkString, ChunkArray }

Recv ==
    /\ \E data \in HeadingChunks : RecvChunk(data)
    /\ UNCHANGED << client, published >>

-----------------------------------------------------------------------------
(* find_and_connect_wahoo *)

timeout_duration == 60
scan_backoff == 5           \* asyncio.sleep(5) between scans
TargetName == "Wahoo SPEED C1E5"
DeviceNames == {TargetName, "other"}
ScanDurations == {5, 10}    \* seconds one BleakScanner.discover() may take
max_attempts == 3           \* range(3)

\* lines 135-144: discover() returns `devices` after `dur` seconds
ScanReturns ==
    /\ ble = "scanning" /\ LinkMayRun
    /\ \E devices \in SUBSET DeviceNames, dur \in ScanDurations :
        IF TargetName \in devices
        THEN /\ wahoo_device' = TargetName
             /\ attempt' = 1                     \* first pass of `for attempt in range(3)`
             /\ ble' = "connecting"
             /\ clock' = 0                       \* not read after the discovery loop
        ELSE /\ ble' = "backoff"
             /\ clock' = clock + dur
             /\ UNCHANGED << wahoo_device, attempt >>
    /\ UNCHANGED << socketVars, cadenceVars, loopVars >>

\* BackoffEnds with `<=` in the loop condition
BackoffEndsInclusive ==
    /\ ble = "backoff" /\ LinkMayRun
    /\ clock' = clock + scan_backoff
    /\ ble' = IF clock' <= timeout_duration THEN "scanning" ELSE "not_found"
    /\ UNCHANGED << wahoo_device, attempt >>
    /\ UNCHANGED << socketVars, cadenceVars, loopVars >>

\* lines 146, 133, 148-150: the sleep ends, the loop condition is read
BackoffEnds ==
    /\ ble = "backoff" /\ LinkMayRun
    /\ clock' = clock + scan_backoff
    /\ ble' = IF clock' < timeout_duration THEN "scanning" ELSE "not_found"
    /\ UNCHANGED << wahoo_device, attempt >>
    /\ UNCHANGED << socketVars, cadenceVars, loopVars >>

\* lines 172-174: an exception inside the try: report the attempt, sleep(5)
AttemptFails == ble' = "retry_wait" /\ UNCHANGED << wahoo_device, attempt, clock >>

\* line 157: BleakClient.__aenter__ connects or raises
Connect ==
    /\ ble = "connecting" /\ LinkMayRun
    /\ \/ ble' = "connected" /\ UNCHANGED << wahoo_device, attempt, clock >>
       \/ AttemptFails
    /\ UNCHANGED << socketVars, cadenceVars, loopVars >>

\* lines 160-167: get_services and start_notify return or raise
Subscribe ==
    /\ ble = "connected" /\ LinkMayRun
    /\ \/ ble' = "subscribed" /\ UNCHANGED << wahoo_device, attempt, clock >>
       \/ AttemptFails
    /\ UNCHANGED << socketVars, cadenceVars, loopVars >>

\* lines 170-171: sleep(30) ends, `return` leaves the `async with`, which
\* disconnects
ListenEnds ==
    /\ ble = "subscribed" /\ LinkMayRun
    /\ ble' = "released" /\ UNCHANGED << wahoo_device, attempt, clock >>
    /\ UNCHANGED << socketVars, cadenceVars, loopVars >>

\* RetryWaitEnds with range(4)
RetryWaitEndsOneMore ==
    /\ ble = "retry_wait" /\ LinkMayRun
    /\ IF attempt < max_attempts + 1
       THEN ble' = "connecting" /\ attempt' = attempt + 1
       ELSE ble' = "failed" /\ UNCHANGED attempt
    /\ UNCHANGED << wahoo_device, clock >>
    /\ UNCHANGED << socketVars, cadenceVars, loopVars >>

\* lines 174, 155, 176: the sleep ends; next pass of the for loop, or the report
RetryWaitEnds ==
    /\ ble = "retry_wait" /\ LinkMayRun
    /\ IF attempt < max_attempts
       THEN ble' = "connecting" /\ attempt' = attempt + 1
       ELSE ble' = "failed" /\ UNCHANGED attempt
    /\ UNCHANGED << wahoo_device, clock >>
    /\ UNCHANGED << socketVars, cadenceVars, loopVars >>

\* the notification payloads of the system specification
PayloadTen == << 1, 10, 0, 0, 0, 0, 4 >>        \* 10 revolutions at 1 s
PayloadTenLater == << 1, 10, 0, 0, 0, 0, 8 >>   \* 10 revolutions at 2 s
PayloadThree == << 1, 3, 0, 0, 0, 0, 4 >>       \* 3 revolutions at 1 s
PayloadEmpty == << >>
NotifyPayloads == { PayloadTen, PayloadTenLater, PayloadThree, PayloadEmpty }

\* the peripheral notifies while the subscription is held
Notify ==
    /\ ble = "subscribed"
    /\ notification_count < MaxNotifications
    /\ \E data \in NotifyPayloads : notification_handler(data)
    /\ UNCHANGED << sensor, socketVars, linkVars, ctl, data_counter, control, key, commands, faults, sim, ticks >>

-----------------------------------------------------------------------------
(* carla_control_loop, from the `while True` on *)

NoControl == << >>

\* Truthy for a loop that does not test the store before reading it
TruthyAlways(x) == TRUE

\* `if latest_heading_data:`
Truthy(x) ==
    CASE x.t = "null" -> FALSE
      [] x.t = "num" -> x.v # 0
      [] x.t = "str" -> x.v # << >>
      [] x.t = "arr" -> x.v # << >>
      [] x.t = "obj" -> DOMAIN x.v # {}

\* dict and list have .copy(); int and str raise AttributeError
HasCopy(x) == x.t \in {"obj", "arr"}

\* the actors of lines 383-390, in the order they are spawned
Actors == {"bike", "car1", "car2"}

\* the run in which every call into the simulator and the socket returns
NoFaults == [bind |-> FALSE, setup |-> 0, actuator |-> 0, cleanup |-> 0]

\* before line 353: the local `client` is unbound, the actor globals are None
NothingCreated ==
    [client |-> FALSE, actors |-> {}, alive |-> {}, recording |-> FALSE, raised |-> FALSE]

\* lines 353-400 raising at `stage`: 1 carla.Client, 2 get_world or the spawn
\* of the bike, 3 the spawn of car 1, 4 the spawn of car 2; 0: all of it ran,
\* start_recorder included
SetupReached(stage) ==
    LET spawned == CASE stage \in {1, 2} -> {}
                     [] stage = 3 -> {"bike"}
                     [] stage = 4 -> {"bike", "car1"}
                     [] OTHER -> Actors
    IN  [client |-> stage # 1, actors |-> spawned, alive |-> spawned,
         recording |-> stage = 0, raised |-> FALSE]

AfterSetup == SetupReached(0)

\* lines 431-451, the finally block: stop_recorder, the three destroys, each
\* under `if actor:`, stop_recorder again; none of the calls is inside a try,
\* so the first that raises ends the block. `fault` is the call the simulator
\* fails (1..5, 0 for none); an unbound `client` raises at line 434
Finally(s, fault) ==
    LET Raise(t) == [t EXCEPT !.raised = TRUE]
        StopRecorder(t, i) ==
            IF t.raised THEN t
            ELSE IF ~t.client \/ fault = i THEN Raise(t)
            ELSE [t EXCEPT !.recording = FALSE]
        Destroy(t, a, i) ==
            IF t.raised \/ a \notin t.actors THEN t
            ELSE IF fault = i THEN Raise(t)
            ELSE [t EXCEPT !.alive = @ \ {a}]
    IN  StopRecorder(Destroy(Destroy(Destroy(StopRecorder(s, 1), "bike", 2), "car1", 3),
                             "car2", 4), 5)

\* an exception leaves the loop: the finally block runs, gather raises in
\* main and asyncio.run cancels the link coroutine
Crash ==
    /\ ctl' = "crashed"
    /\ sim' = Finally(sim, faults.cleanup)
    /\ ble' = IF LinkEnded THEN ble ELSE "cancelled"
    /\ UNCHANGED << wahoo_device, attempt, clock, data_counter, control, stalled_evals, key,
                    commands, faults, ticks >>
    /\ UNCHANGED << socketVars, cadenceVars >>

\* lines 411, 431-451: `break`, then the finally block; the coroutine returns,
\* or raises what the finally block raised
Break ==
    LET s == Finally(sim, faults.cleanup)
    IN  /\ sim' = s
        /\ ctl' = IF s.raised THEN "crashed" ELSE "stopped"
        /\ ble' = IF s.raised /\ ~LinkEnded THEN "cancelled" ELSE ble
        /\ UNCHANGED << wahoo_device, attempt, clock, faults, ticks >>

\* the operator presses 'k'
KeyDown ==
    /\ key # "down" /\ ~LoopEnded
    /\ key' = "down"
    /\ UNCHANGED << ctl, data_counter, control, stalled_evals, commands, faults, sim, ticks >>
    /\ UNCHANGED << socketVars, cadenceVars, linkVars >>

\* the operator lets go of 'k'
KeyUp ==
    /\ key = "down" /\ ~LoopEnded
    /\ key' = "released"
    /\ UNCHANGED << ctl, data_counter, control, stalled_evals, commands, faults, sim, ticks >>
    /\ UNCHANGED << socketVars, cadenceVars, linkVars >>

\* lines 409-411, 431-451: keyboard.is_pressed('k') is true at the check:
\* break, then the finally block, which destroys the actors and applies no
\* control
KillSeen ==
    /\ ctl = "loop" /\ LoopMayRun
    /\ key = "down"
    /\ Break
    /\ UNCHANGED << data_counter, control, stalled_evals, key, commands >>
    /\ UNCHANGED << socketVars, cadenceVars >>

\* KeyDown then KillSeen in one step: the operator is holding 'k' when the
\* check is made
Kill ==
    /\ ctl = "loop" /\ LoopMayRun
    /\ key = "up"
    /\ key' = "down"
    /\ Break
    /\ UNCHANGED << data_counter, control, stalled_evals, commands >>
    /\ UNCHANGED << socketVars, cadenceVars >>

\* lines 403-414, 425-429: top of an iteration, 'k' not pressed
LoopTop ==
    /\ ctl = "loop" /\ LoopMayRun
    /\ key # "down"
    /\ ctl' = IF Truthy(latest_heading_data) THEN "read" ELSE "loop"
    /\ UNCHANGED << data_counter, control, stalled_evals, key, commands, faults, sim >>
    /\ UNCHANGED << socketVars, cadenceVars, linkVars >>

TickTop == LoopTop /\ UNCHANGED ticks

\* TickTop with the iteration counted
Tick ==
    /\ ticks < MaxTicks
    /\ LoopTop
    /\ ticks' = ticks + 1

\* lines 415-429: second read of the global, down-sampling, policy, actuator
TickRead ==
    /\ ctl = "read"
    /\ data_counter < MaxDataCounter
    /\ IF ~HasCopy(latest_heading_data) THEN Crash
       ELSE /\ data_counter' = data_counter + 1
            /\ IF data_counter' % process_every_nth = 0
               THEN LET r == process_heading_data(latest_heading_data, shared_data,
                                                  no_rotation_count)
                    IN  /\ shared_data' = r.shared
                        /\ stalled_evals' = IF no_rotation_count >= stall_threshold
                                            THEN stalled_evals + 1 ELSE 0
                        /\ IF faults.actuator = commands + 1
                           THEN \* line 422 raises: out of the loop through the
                                \* finally block, as in Crash
                                /\ ctl' = "crashed"
                                /\ sim' = Finally(sim, faults.cleanup)
                                /\ ble' = IF LinkEnded THEN ble ELSE "cancelled"
                                /\ UNCHANGED << control, commands >>
                           ELSE /\ ctl' = "loop"
                                /\ control' = << [steer |-> r.steer, throttle |-> r.throttle] >>
                                /\ commands' = commands + 1
                                /\ UNCHANGED << sim, ble >>
               ELSE /\ ctl' = "loop"
                    /\ UNCHANGED << shared_data, control, stalled_evals, commands, sim, ble >>
            /\ UNCHANGED << key, faults, ticks, wahoo_device, attempt, clock >>
            /\ UNCHANGED << sensor, notified, no_rotation_count, notification_count >>
            /\ UNCHANGED socketVars

-----------------------------------------------------------------------------
(* The system *)

\* the peer of the system specification sends whole records, see Recv
NoStream == [records |-> << >>, stream |-> << >>, pos |-> 0, chunks |-> 0]

Init ==
    /\ client = NoStream
    /\ sock = "accept"
    /\ buffer = << >>
    /\ latest_heading_data = None
    /\ emitted = << >>
    /\ published = << >>
    /\ sensor = << >>
    /\ notified = << >>
    /\ shared_data = [cumulative_wheel_revolutions |-> 0, last_wheel_event_time |-> Zero]
    /\ no_rotation_count = 0
    /\ notification_count = 0
    /\ ble = "scanning"
    /\ wahoo_device = "None"
    /\ attempt = 0
    /\ clock = 0
    /\ ctl = "loop"
    /\ data_counter = 0
    /\ control = NoControl
    /\ stalled_evals = 0
    /\ key = "up"
    /\ commands = 0
    /\ faults = NoFaults
    /\ sim = AfterSetup
    /\ ticks = 0

Next ==
    \/ Accept
    \/ Recv
    \/ RecvEnd
    \/ ScanReturns
    \/ BackoffEnds
    \/ Connect
    \/ Subscribe
    \/ ListenEnds
    \/ RetryWaitEnds
    \/ Notify
    \/ Kill
    \/ TickTop
    \/ TickRead

Spec == Init /\ [][Next ]_vars

-----------------------------------------------------------------------------
(* Failing calls: the socket thread, the set-up of the control loop, the     *)
(* actuator and the finally block, in runs where the environment makes one   *)
(* or more of their calls raise                                              *)

\* line 61: s.bind raises OSError; the exception ends the daemon thread, whose
\* traceback threading prints; nothing tells main()
BindFails ==
    /\ sock = "accept" /\ ~Exited
    /\ faults.bind
    /\ sock' = "failed"
    /\ UNCHANGED << client, buffer, latest_heading_data, emitted, published >>
    /\ UNCHANGED << cadenceVars, linkVars, loopVars >>

\* lines 352-400: the blocking set-up inside the try; a call that raises goes
\* to the finally block and out of the coroutine
Setup ==
    /\ ctl = "setup" /\ LoopMayRun
    /\ IF faults.setup = 0
       THEN /\ sim' = AfterSetup
            /\ ctl' = "loop"
            /\ UNCHANGED ble
       ELSE /\ sim' = Finally(SetupReached(faults.setup), faults.cleanup)
            /\ ctl' = "crashed"
            /\ ble' = IF LinkEnded THEN ble ELSE "cancelled"
    /\ UNCHANGED << wahoo_device, attempt, clock, data_counter, control, stalled_evals, key,
                    commands, faults, ticks >>
    /\ UNCHANGED << socketVars, cadenceVars >>

FaultPlans ==
    [bind : BOOLEAN, setup : 0..4, actuator : 0..(MaxDataCounter \div process_every_nth),
     cleanup : 0..5]

InitFaults ==
    /\ client = NoStream
    /\ sock = "accept"
    /\ buffer = << >>
    /\ latest_heading_data = None
    /\ emitted = << >>
    /\ published = << >>
    /\ sensor = << >>
    /\ notified = << >>
    /\ shared_data = [cumulative_wheel_revolutions |-> 0, last_wheel_event_time |-> Zero]
    /\ no_rotation_count = 0
    /\ notification_count = 0
    /\ ble = "scanning"
    /\ wahoo_device = "None"
    /\ attempt = 0
    /\ clock = 0
    /\ ctl = "setup"
    /\ data_counter = 0
    /\ control = NoControl
    /\ stalled_evals = 0
    /\ key = "up"
    /\ commands = 0
    /\ faults \in FaultPlans
    /\ sim = NothingCreated
    /\ ticks = 0

NextFaults ==
    \/ BindFails
    \/ Accept
    \/ Recv
    \/ RecvEnd
    \/ Setup
    \/ Kill
    \/ TickTop
    \/ TickRead

SpecFaults == InitFaults /\ [][NextFaults ]_vars

-----------------------------------------------------------------------------
(* The schedule: the heading socket and the control loop, every iteration    *)
(* of the loop counted                                                       *)

NextSchedule ==
    \/ Accept
    \/ Recv
    \/ RecvEnd
    \/ Tick
    \/ TickRead

SpecSchedule == Init /\ [][NextSchedule ]_vars

-----------------------------------------------------------------------------
(* The operator and the loop: the heading socket and the control loop with  *)
(* 'k' pressed and released at any time; no sensor is in range.             *)

NextStop ==
    \/ Accept
    \/ Recv
    \/ RecvEnd
    \/ KeyDown
    \/ KeyUp
    \/ KillSeen
    \/ TickTop
    \/ TickRead

SpecStop == Init /\ [][NextStop ]_vars

-----------------------------------------------------------------------------
(* The policy: one heading record from the peer, any cadence history from   *)
(* a held subscription, and the loop evaluating the policy on them.         *)

BaseHeadings == {0, 30, 45, 90, 150, 180, 210, 270, 330}
PolicyHeadings == BaseHeadings \cup { h + 360 : h \in BaseHeadings }

DigitChars == << "0", "1", "2", "3", "4", "5", "6", "7", "8", "9" >>

\* str(n) for n >= 0
RECURSIVE DigitsOf(_)
DigitsOf(n) ==
    IF n < 10 THEN << DigitChars[n + 1] >>
    ELSE DigitsOf(n \div 10) \o << DigitChars[(n % 10) + 1] >>

\* the bytes of {"h":<heading>}
HeadingRecord(h) == << "{", "\"", "h", "\"", ":" >> \o DigitsOf(h) \o << "}" >>

PolicyRecords ==
    { HeadingRecord(h) : h \in PolicyHeadings } \cup { ChunkNoHeading, ChunkBadHeading, ChunkArray }

PayloadHundred == << 1, 100, 0, 0, 0, 0, 4 >>    \* 100 revolutions at 1 s
PolicyPayloads == { PayloadTen, PayloadThree, PayloadHundred }

InitPolicy ==
    /\ \E rec \in PolicyRecords :
        client = [records |-> << rec >>, stream |-> rec, pos |-> 0, chunks |-> 0]
    /\ sock = "recv"
    /\ buffer = << >>
    /\ latest_heading_data = None
    /\ emitted = << >>
    /\ published = << >>
    /\ sensor = << >>
    /\ notified = << >>
    /\ shared_data = [cumulative_wheel_revolutions |-> 0, last_wheel_event_time |-> Zero]
    /\ no_rotation_count = 0
    /\ notification_count = 0
    /\ ble = "subscribed"
    /\ wahoo_device = TargetName
    /\ attempt = 1
    /\ clock = 0
    /\ ctl = "loop"
    /\ data_counter = 0
    /\ control = NoControl
    /\ stalled_evals = 0
    /\ key = "up"
    /\ commands = 0
    /\ faults = NoFaults
    /\ sim = AfterSetup
    /\ ticks = 0

\* recv(1024) returns the whole record the peer sent
RecvRecord ==
    /\ client.pos = 0
    /\ RecvChunk(client.stream)
    /\ client' = [client EXCEPT !.pos = Len(client.stream), !.chunks = 1]
    /\ published' = published \o emitted'

NotifyPolicy ==
    /\ ble = "subscribed"
    /\ notification_count < MaxNotifications
    /\ \E data \in PolicyPayloads : notification_handler(data)
    /\ UNCHANGED << sensor, socketVars, linkVars, ctl, data_counter, control, key, commands, faults, sim, ticks >>

NextPolicy ==
    \/ RecvRecord
    \/ NotifyPolicy
    \/ TickTop
    \/ TickRead

SpecPolicy == InitPolicy /\ [][NextPolicy ]_vars

-----------------------------------------------------------------------------
(* The keyboard-driven variant, src/p14_keyboard_final.py *)

\* lines 27-48: the arrow keys held down give the command
get_keyboard_input(up, down, left, right) ==
    [throttle |-> IF up THEN One ELSE IF down THEN RatNeg(One) ELSE Zero,
     steer |-> IF left THEN DblNeg(DblOne) ELSE IF right THEN DblOne ELSE DblZero]

-----------------------------------------------------------------------------
(* The framer alone: the peer sends a stream of back-to-back records, which *)
(* TCP delivers to recv() cut at arbitrary places.                          *)

\* {"k":"é"} in UTF-8
RecordAccent == << "{", "\"", "k", "\"", ":", "\"", "C3", "A9", "\"", "}" >>
FramerRecords == { ChunkHeading90, ChunkNoHeading, ChunkEmptyObject, RecordAccent }

RECURSIVE Concat(_)
Concat(rs) == IF rs = << >> THEN << >> ELSE Head(rs) \o Concat(Tail(rs))

RecordSeqs == UNION { [1..n -> FramerRecords] : n \in 1..MaxRecs }

InitFramer ==
    /\ \E rs \in RecordSeqs :
        client = [records |-> rs, stream |-> Concat(rs), pos |-> 0, chunks |-> 0]
    /\ sock = "accept"
    /\ buffer = << >>
    /\ latest_heading_data = None
    /\ emitted = << >>
    /\ published = << >>
    /\ sensor = << >>
    /\ notified = << >>
    /\ shared_data = [cumulative_wheel_revolutions |-> 0, last_wheel_event_time |-> Zero]
    /\ no_rotation_count = 0
    /\ notification_count = 0
    /\ ble = "scanning"
    /\ wahoo_device = "None"
    /\ attempt = 0
    /\ clock = 0
    /\ ctl = "loop"
    /\ data_counter = 0
    /\ control = NoControl
    /\ stalled_evals = 0
    /\ key = "up"
    /\ commands = 0
    /\ faults = NoFaults
    /\ sim = AfterSetup
    /\ ticks = 0

\* recv(1024) returns any non-empty prefix of the bytes not yet delivered
FramerRecv ==
    /\ \E k \in 1..(Len(client.stream) - client.pos) :
        /\ RecvChunk(SubSeq(client.stream, client.pos + 1, client.pos + k))
        /\ client' = [client EXCEPT !.pos = @ + k, !.chunks = @ + 1]
    /\ published' = published \o emitted'

NextFramer ==
    \/ Accept
    \/ FramerRecv
    \/ RecvEnd

SpecFramer == InitFramer /\ [][NextFramer ]_vars

-----------------------------------------------------------------------------
(* The framer after a malformed fragment: the peer sends bytes that can     *)
(* start no JSON value, then a record.                                      *)

FragmentBrace == << "}" >>
FragmentLetter == << "x" >>
FragmentNoValue == << "{", "\"", "k", "\"", ":", "}" >>
FragmentComma == << "[", "1", ",", "]" >>
MalformedFragments == { FragmentBrace, FragmentLetter, FragmentNoValue, FragmentComma }

InitMalformed ==
    /\ \E frag \in MalformedFragments, rec \in FramerRecords :
        client = [records |-> << frag, rec >>, stream |-> frag \o rec,
                  pos |-> 0, chunks |-> 0]
    /\ sock = "accept"
    /\ buffer = << >>
    /\ latest_heading_data = None
    /\ emitted = << >>
    /\ published = << >>
    /\ sensor = << >>
    /\ notified = << >>
    /\ shared_data = [cumulative_wheel_revolutions |-> 0, last_wheel_event_time |-> Zero]
    /\ no_rotation_count = 0
    /\ notification_count = 0
    /\ ble = "scanning"
    /\ wahoo_device = "None"
    /\ attempt = 0
    /\ clock = 0
    /\ ctl = "loop"
    /\ data_counter = 0
    /\ control = NoControl
    /\ stalled_evals = 0
    /\ key = "up"
    /\ commands = 0
    /\ faults = NoFaults
    /\ sim = AfterSetup
    /\ ticks = 0

SpecMalformed == InitMalformed /\ [][NextFramer ]_vars

-----------------------------------------------------------------------------
(* The framer on whitespace: the peer separates two records by spaces.      *)

Separators == { << " " >>, << " ", " " >> }

InitWhitespace ==
    /\ \E r1 \in FramerRecords, r2 \in FramerRecords, sep \in Separators :
        client = [records |-> << r1, r2 >>, stream |-> r1 \o sep \o r2,
                  pos |-> 0, chunks |-> 0]
    /\ sock = "accept"
    /\ buffer = << >>
    /\ latest_heading_data = None
    /\ emitted = << >>
    /\ published = << >>
    /\ sensor = << >>
    /\ notified = << >>
    /\ shared_data = [cumulative_wheel_revolutions |-> 0, last_wheel_event_time |-> Zero]
    /\ no_rotation_count = 0
    /\ notification_count = 0
    /\ ble = "scanning"
    /\ wahoo_device = "None"
    /\ attempt = 0
    /\ clock = 0
    /\ ctl = "loop"
    /\ data_counter = 0
    /\ control = NoControl
    /\ stalled_evals = 0
    /\ key = "up"
    /\ commands = 0
    /\ faults = NoFaults
    /\ sim = AfterSetup
    /\ ticks = 0

SpecWhitespace == InitWhitespace /\ [][NextFramer ]_vars

-----------------------------------------------------------------------------
(* The framer on every stream above: back-to-back records, a malformed      *)
(* fragment before a record, records separated by whitespace.               *)

InitFeed == InitFramer \/ InitMalformed \/ InitWhitespace

SpecFeed == InitFeed /\ [][NextFramer ]_vars

-----------------------------------------------------------------------------
(* The decoder alone: one notification with an arbitrary payload, on a held *)
(* subscription.                                                            *)

\* byte values tried at 1-based position i; the outer bytes of the
\* revolution count stay below 128 so that the count fits TLC's 32-bit integers
ByteAt(i) == IF i \in {2, 5} THEN {0, 1, 127} ELSE {0, 1, 255}

RECURSIVE PayloadsOfLen(_)
PayloadsOfLen(n) ==
    IF n = 0 THEN { << >> }
    ELSE { Append(p, b) : p \in PayloadsOfLen(n - 1), b \in ByteAt(n) }

DecoderPayloads == UNION { PayloadsOfLen(n) : n \in 0..MaxPayloadLen }

InitDecode ==
    /\ client = NoStream
    /\ sock = "accept"
    /\ buffer = << >>
    /\ latest_heading_data = None
    /\ emitted = << >>
    /\ published = << >>
    /\ \E data \in DecoderPayloads : sensor = << data >>
    /\ notified = << >>
    /\ shared_data = [cumulative_wheel_revolutions |-> 0, last_wheel_event_time |-> Zero]
    /\ no_rotation_count = 0
    /\ notification_count = 0
    /\ ble = "subscribed"
    /\ wahoo_device = TargetName
    /\ attempt = 1
    /\ clock = 0
    /\ ctl = "loop"
    /\ data_counter = 0
    /\ control = NoControl
    /\ stalled_evals = 0
    /\ key = "up"
    /\ commands = 0
    /\ faults = NoFaults
    /\ sim = AfterSetup
    /\ ticks = 0

SensorNotify ==
    /\ ble = "subscribed"
    /\ sensor # << >>
    /\ notification_handler(Head(sensor))
    /\ sensor' = Tail(sensor)
    /\ UNCHANGED << socketVars, linkVars, ctl, data_counter, control, key, commands, faults, sim, ticks >>

NextDecode == SensorNotify

SpecDecode == InitDecode /\ [][NextDecode ]_vars

-----------------------------------------------------------------------------
(* The speed read-out of src/wahooTest.py: two notifications in a row on a  *)
(* held subscription. Its parse_csc_measurement stores the reading as the   *)
(* decoder above does, and keeps previous_time equal to the stored event    *)
(* time (lines 46-49).                                                      *)

\* last_wheel_event_time_raw, wahooTest.py line 31
EventTimeRaw(data) == FromBytesLittle(Slice(data, 5, 7))

\* wahooTest.py lines 38-41: the elapsed time between the previous reading
\* and this one, and whether a speed is computed from it
SpeedTimeDiff(previous_time, last_wheel_event_time_seconds) ==
    LET time_diff == RatAdd(last_wheel_event_time_seconds, RatNeg(previous_time))
    IN  [computed |-> RatLt(Zero, previous_time) /\ RatLt(Zero, time_diff),
         time_diff |-> time_diff]

\* measurements of 10..12 revolutions at 1 s, 2 s and 63.75 s of the
\* sensor's 16-bit clock of 1/1024 s
SpeedPayloads ==
    { << 1, r, 0, 0, 0, 0, hi >> : r \in {10, 11, 12}, hi \in {4, 8, 255} }

InitSpeed ==
    /\ \E p1 \in SpeedPayloads, p2 \in SpeedPayloads : sensor = << p1, p2 >>
    /\ client = NoStream
    /\ sock = "accept"
    /\ buffer = << >>
    /\ latest_heading_data = None
    /\ emitted = << >>
    /\ published = << >>
    /\ notified = << >>
    /\ shared_data = [cumulative_wheel_revolutions |-> 0, last_wheel_event_time |-> Zero]
    /\ no_rotation_count = 0
    /\ notification_count = 0
    /\ ble = "subscribed"
    /\ wahoo_device = TargetName
    /\ attempt = 1
    /\ clock = 0
    /\ ctl = "loop"
    /\ data_counter = 0
    /\ control = NoControl
    /\ stalled_evals = 0
    /\ key = "up"
    /\ commands = 0
    /\ faults = NoFaults
    /\ sim = AfterSetup
    /\ ticks = 0

SpecSpeed == InitSpeed /\ [][NextDecode ]_vars

-----------------------------------------------------------------------------
(* Properties *)

\* the value one record decodes to on its own
RecordValue(rec) == raw_decode(Utf8Decode(rec).text).val

StreamDelivered == sock # "accept" /\ client.pos = Len(client.stream)

\* a step of TickRead that evaluates the policy and commands the actuator
EvaluatedTick ==
    /\ ctl = "read" /\ ctl' = "loop"
    /\ data_counter' = data_counter + 1
    /\ data_counter' % 5 = 0

\* the record in the store is an object whose heading float() accepts
HeadingUsable ==
    /\ latest_heading_data.t = "obj"
    /\ \/ locationTrueHeading \notin DOMAIN latest_heading_data.v
       \/ float(latest_heading_data.v[locationTrueHeading]).ok

\* C1: a record delivered in any number of chunks is published exactly once,
\* with the value it has when delivered as one chunk.
C1_SplitRecordPublishedOnce ==
    (Len(client.records) = 1 /\ StreamDelivered /\ client.chunks >= 1)
        => LET whole == Feed(<< >>, None, client.stream).emitted
           IN  Len(published) = 1 /\ published = whole

\* C2: N records back-to-back in one chunk are published, all N, in order,
\* and the buffer is left empty.
C2_ConcatenatedRecordsAllPublished ==
    (StreamDelivered /\ client.chunks = 1)
        => /\ Len(emitted) = Len(client.records)
           /\ \A i \in 1..Len(client.records) : emitted[i] = RecordValue(client.records[i])
           /\ published = emitted
           /\ latest_heading_data = emitted[Len(emitted)]
           /\ buffer = << >>

C2_Witness ==
    /\ StreamDelivered /\ client.chunks = 1
    /\ Len(client.records) = 2
    /\ client.records[1] # client.records[2]
    /\ Len(emitted) = 2

\* C3: while the revolution count keeps repeating (stall count at the
\* threshold or above), each evaluated tick on a well-formed heading record
\* returns a throttle no greater than the one before, and smaller unless
\* that was already 0.
C3_StalledThrottleDecays ==
    [][ ( /\ EvaluatedTick
          /\ HeadingUsable
          /\ no_rotation_count >= 2
          /\ stalled_evals >= 1
          /\ control # NoControl )
        => /\ RatLe(control'[1].throttle, control[1].throttle)
           /\ control[1].throttle # Zero => control'[1].throttle # control[1].throttle ]_vars

\* C4: the throttle is chosen by priority: stalled, then fewer than 5
\* revolutions, then 0.1 + 0.015 per revolution capped at 1.0.
C4_ThrottlePriority ==
    [][ ( /\ EvaluatedTick
          /\ HeadingUsable
          /\ \/ "last_throttle" \in DOMAIN shared_data
             \/ no_rotation_count < 2 /\ shared_data["cumulative_wheel_revolutions"] >= 5 )
        => LET revolutions == shared_data["cumulative_wheel_revolutions"]
               throttle == control'[1].throttle
           IN  /\ no_rotation_count >= 2
                    => throttle = RatMax(Zero, RatMul(shared_data["last_throttle"], Rat(3, 10)))
               /\ (no_rotation_count < 2 /\ revolutions < 5)
                    => throttle = RatMax(Zero, RatMul(shared_data["last_throttle"], Rat(9, 10)))
               /\ (no_rotation_count < 2 /\ revolutions >= 5)
                    => throttle = RatMin(Rat(100 + 15 * revolutions, 1000), One)
               /\ (no_rotation_count < 2 /\ revolutions = 10) => throttle = Rat(1, 4) ]_vars

\* a stalled evaluation has decayed the 0.25 of 10 revolutions to 0.075
C4_Witness ==
    /\ control # NoControl
    /\ control[1].throttle = Rat(75, 1000)
    /\ shared_data["cumulative_wheel_revolutions"] = 10
    /\ no_rotation_count >= 2

\* C5: no record and no notification payload stops the control loop.
C5_LoopNeverCrashes == ctl # "crashed"

\* C6: a payload of fewer than 7 bytes is rejected and yields no reading.
C6_ShortPayloadRejected ==
    (notified # << >> /\ Len(notified[1].data) < 7)
        => /\ notified[1].raised
           /\ shared_data["cumulative_wheel_revolutions"] = 0
           /\ shared_data["last_wheel_event_time"] = Zero

\* C7: of a payload of 7 bytes or more, bytes 1..4 are the revolution count
\* and bytes 5..6 the event time in 1/1024 s, both little-endian; the flags
\* byte and the bytes after index 6 play no part.
C7_DecodedFields ==
    (notified # << >> /\ Len(notified[1].data) >= 7)
        => LET d == notified[1].data
           IN  /\ ~notified[1].raised
               /\ shared_data["cumulative_wheel_revolutions"]
                    = d[2] + 256 * d[3] + 65536 * d[4] + 16777216 * d[5]
               /\ shared_data["last_wheel_event_time"] = Rat(d[6] + 256 * d[7], 1024)

C7_Witness ==
    /\ notified # << >>
    /\ notified[1].data = << 255, 1, 0, 255, 127, 0, 1, 255 >>
    /\ shared_data["cumulative_wheel_revolutions"] = 1 + 65536 * 255 + 16777216 * 127
    /\ shared_data["last_wheel_event_time"] = Rat(1, 4)

C9_AcquisitionFailureDecays ==
    [][ ( /\ EvaluatedTick
          /\ HeadingUsable
          /\ ble \in {"not_found", "failed"}
          /\ notification_count = 0
          /\ control # NoControl
          /\ control[1].throttle # Zero )
        => RatLt(control'[1].throttle, control[1].throttle) ]_vars

\* C10: at most 3 connection attempts, none before the device is found,
\* none after one succeeded; the failure report follows the third failure
\* and nothing else.
C10_BoundedAttempts ==
    /\ [](attempt <= 3)
    /\ [](attempt > 0 => wahoo_device = TargetName)
    /\ [](ble = "failed" => attempt = 3)
    /\ [][(ble \in {"subscribed", "released"}) => attempt' = attempt ]_vars
    /\ [][(ble = "released") => ble' = "released" ]_vars
    /\ [][(attempt' # attempt)
            => /\ attempt' = attempt + 1
               /\ ble \in {"scanning", "retry_wait"}
               /\ ble' = "connecting" ]_vars
    /\ [][(ble = "retry_wait" /\ attempt = 3 /\ ble' # ble)
            => ble' \in {"failed", "cancelled"} ]_vars
    /\ [][(ble' = "failed" /\ ble # "failed") => (ble = "retry_wait" /\ attempt = 3) ]_vars

C10_Witness == ble = "failed" /\ attempt = 3 /\ wahoo_device = TargetName

\* C11: when the target is never seen, discovery gives up at an elapsed time
\* of at least 60 s and less than 60 s plus one scan interval (the scan that
\* was running when the budget ran out and the backoff after it), however
\* long the scans take: no scan starts at or after 60 s, the report is made
\* at the end of the backoff that follows the last scan, and never before
\* 60 s.
C11_NotFoundWithinOneInterval ==
    /\ [](ble = "scanning" => clock < 60)
    /\ [](ble = "not_found" => (clock >= 60 /\ clock < 60 + 10 + 5 /\ wahoo_device = "None"))
    /\ [][(ble = "scanning" /\ ble' = "backoff") => (clock' - clock) \in {5, 10} ]_vars
    /\ [][(ble' = "not_found" /\ ble # "not_found")
            => (ble = "backoff" /\ clock' = clock + 5) ]_vars
    /\ [][(ble = "backoff" /\ ble' # ble /\ clock + 5 >= 60) => ble' \in {"not_found", "cancelled"} ]_vars

\* the last scan began at 55 s and took 10 s
C11_Witness == ble = "not_found" /\ clock = 70 /\ wahoo_device = "None"

\* C12: once 'k' has been pressed, the next check of the loop sees it: the
\* iteration that begins after the press ends the loop instead of reading
\* the heading, and a loop that has ended stays ended and commands nothing.
C12_StopObservedWithinOneTick ==
    /\ [][(key # "up" /\ ctl = "loop" /\ ctl' # ctl) => ctl' = "stopped" ]_vars
    /\ [][(ctl = "stopped") => (ctl' = "stopped" /\ commands' = commands) ]_vars

\* C13: once the control loop has ended, by the kill or by an error, the
\* last command the actuator was given has zero throttle.
C13_NeutralCommandLast ==
    (LoopEnded /\ control # NoControl) => control[1].throttle = Zero

\* C14: a tick sees no torn record: the stored revolution count and event
\* time always come from one and the same notification, and the heading
\* record is not replaced between the tick's test for its presence and the
\* tick's use of it.
C14_NoTornRead ==
    /\ []((notified # << >> /\ ~notified[1].raised /\ Len(notified[1].data) >= 7)
            => LET d == notified[1].data
               IN  /\ shared_data["cumulative_wheel_revolutions"]
                        = d[2] + 256 * d[3] + 65536 * d[4] + 16777216 * d[5]
                   /\ shared_data["last_wheel_event_time"] = Rat(d[6] + 256 * d[7], 1024))
    /\ [][(ctl = "read") => latest_heading_data' = latest_heading_data ]_vars

\* C15: the store holds the last value published on each side and nothing
\* else: the heading is the last record of the last receive that decoded
\* any, and changes only by such a receive; the cadence reading is that of
\* the last notification that decoded, and changes only by such a
\* notification.
C15_LastWriteWins ==
    /\ [](emitted # << >> => latest_heading_data = emitted[Len(emitted)])
    /\ [][(latest_heading_data' # latest_heading_data)
            => (emitted' # << >> /\ latest_heading_data' = emitted'[Len(emitted')]) ]_vars
    /\ [][(notification_count' # notification_count /\ ~notified'[1].raised)
            => LET d == notified'[1].data
               IN  /\ Len(d) >= 7
                   /\ shared_data'["cumulative_wheel_revolutions"]
                        = d[2] + 256 * d[3] + 65536 * d[4] + 16777216 * d[5]
                   /\ shared_data'["last_wheel_event_time"] = Rat(d[6] + 256 * d[7], 1024) ]_vars
    /\ [][(notification_count' = notification_count \/ notified'[1].raised)
            => /\ shared_data'["cumulative_wheel_revolutions"]
                    = shared_data["cumulative_wheel_revolutions"]
               /\ shared_data'["last_wheel_event_time"] = shared_data["last_wheel_event_time"] ]_vars

\* a second reading and a second record have replaced the first ones
C15_Witness ==
    /\ notification_count >= 2
    /\ notified # << >> /\ notified[1].data = << 1, 3, 0, 0, 0, 0, 4 >>
    /\ shared_data["cumulative_wheel_revolutions"] = 3
    /\ no_rotation_count = 0
    /\ emitted = << Obj(EmptyDict) >>
    /\ latest_heading_data = Obj(EmptyDict)
    /\ data_counter >= 1

\* C16: a notification that decodes adds one to the stall counter when its
\* revolution count equals the stored one and sets the counter to zero when
\* it differs; a notification that does not decode, and every step that is
\* not a notification, leaves the counter as it is.
C16_StallCounter ==
    /\ [][(notification_count' # notification_count /\ ~notified'[1].raised)
            => no_rotation_count'
                 = IF shared_data'["cumulative_wheel_revolutions"]
                        = shared_data["cumulative_wheel_revolutions"]
                   THEN no_rotation_count + 1 ELSE 0 ]_vars
    /\ [][(notification_count' # notification_count /\ notified'[1].raised)
            => no_rotation_count' = no_rotation_count ]_vars
    /\ [][(notification_count' = notification_count)
            => no_rotation_count' = no_rotation_count ]_vars

\* 10, 10 and 10 revolutions: the first reading differs from the initial 0,
\* the next two are counted
C16_Witness ==
    /\ notification_count = 3
    /\ no_rotation_count = 2
    /\ shared_data["cumulative_wheel_revolutions"] = 10
    /\ notified # << >> /\ ~notified[1].raised

\* C17: every tick that completes hands exactly one command to the actuator,
\* whether or not it evaluated the policy.
C17_OneCommandPerTick ==
    [][(ctl = "read" /\ ctl' = "loop") => commands' = commands + 1 ]_vars

\* the policy's steer for the whole-degree heading h, in the current store
SteerFor(h) ==
    process_heading_data(Obj([k \in {locationTrueHeading} |-> Num(h)]),
                         shared_data, no_rotation_count).steer

\* C18: on every evaluated tick whose record carries a heading h, the steer
\* commanded is clamp(sin(radians(h)) * 0.5, -1, 1), lies in [-1, 1], is the
\* steer the policy gives for h + 360, and is 0.5 when h is 90.
C18_SteerOfHeading ==
    [][ ( /\ EvaluatedTick
          /\ latest_heading_data.t = "obj"
          /\ locationTrueHeading \in DOMAIN latest_heading_data.v
          /\ float(latest_heading_data.v[locationTrueHeading]).ok )
        => LET h == float(latest_heading_data.v[locationTrueHeading]).val.n
               steer == control'[1].steer
           IN  /\ steer = DblClamp(DblHalf(SinDeg(h)))
               /\ DblAbsLeOne(steer)
               /\ steer = SteerFor(h + 360)
               /\ h = 90 => steer = DblHalf(DblOne) ]_vars

\* steer and throttle of a command are both within [-1, 1]
CommandInRange(c) ==
    /\ DblAbsLeOne(c.steer)
    /\ RatLe(RatNeg(One), c.throttle) /\ RatLe(c.throttle, One)

\* C19: the command the actuator holds is within range whichever branch of
\* the policy or its fallback produced it, and so is every command the
\* arrow keys of the keyboard variant can give.
C19_CommandsInRange ==
    /\ control # NoControl => CommandInRange(control[1])
    /\ \A up \in BOOLEAN, down \in BOOLEAN, left \in BOOLEAN, right \in BOOLEAN :
          CommandInRange(get_keyboard_input(up, down, left, right))

\* 100 revolutions: 0.1 + 1.5 capped at full throttle, heading 270 at full
\* left lock of the damped steer
C19_Witness ==
    /\ control # NoControl
    /\ control[1].throttle = One
    /\ control[1].steer = DblNeg(DblHalf(DblOne))
    /\ shared_data["cumulative_wheel_revolutions"] = 100

\* C20: when a malformed fragment is followed by a complete valid record,
\* the record is published, and is the latest heading, once all the bytes
\* have been received.
C20_RecordAfterMalformedFragment ==
    (StreamDelivered /\ Len(client.records) = 2 /\ client.chunks >= 1
        /\ client.records[1] \in MalformedFragments)
        => /\ published # << >>
           /\ published[Len(published)] = RecordValue(client.records[2])
           /\ latest_heading_data = RecordValue(client.records[2])

-----------------------------------------------------------------------------
(* The decoder and the shared store *)

\* states of shared_data the decoder can be called in: lines 28-31, after
\* earlier notifications, and after process_heading_data stored last_throttle
StoreSamples ==
    LET cadence == { [cumulative_wheel_revolutions |-> r, last_wheel_event_time |-> t] :
                       r \in {0, 7}, t \in {Zero, Rat(1, 2)} }
    IN  cadence \cup { SetItem(sd, "last_throttle", Rat(1, 4)) : sd \in cadence }

\* the two fields parse_csc_measurement stores (lines 119-120)
CadenceKeys == {"cumulative_wheel_revolutions", "last_wheel_event_time"}
Reading(sd) == << sd["cumulative_wheel_revolutions"], sd["last_wheel_event_time"] >>

C22_LinkHeldWhileLoopRuns ==
    [][ (ble = "subscribed" /\ ble' # "subscribed") => LoopEnded' ]_vars

\* C23 as stated: with last_throttle = 0.25, once the last two notifications
\* carried the same revolution count the next evaluation returns 0.075.
C23_TwoIdenticalNotificationsStall ==
    [][ ( /\ EvaluatedTick
          /\ HeadingUsable
          /\ notification_count >= 2
          /\ no_rotation_count >= 1
          /\ "last_throttle" \in DOMAIN shared_data
          /\ shared_data["last_throttle"] = Rat(1, 4) )
        => control'[1].throttle = Rat(75, 1000) ]_vars

\* C23 amended: with last_throttle = 0.25, once two consecutive
\* notifications repeated the count already in the store (the stall counter
\* has reached stall_threshold = 2) the next evaluation takes the stall
\* branch and returns max(0.0, 0.25 * 0.3) = 0.075.
C23_TwoRepeatsStall ==
    [][ ( /\ EvaluatedTick
          /\ HeadingUsable
          /\ no_rotation_count >= stall_threshold
          /\ "last_throttle" \in DOMAIN shared_data
          /\ shared_data["last_throttle"] = Rat(1, 4) )
        => /\ control'[1].throttle = RatMax(Zero, RatMul(Rat(1, 4), Rat(3, 10)))
           /\ control'[1].throttle = Rat(75, 1000)
           /\ shared_data'["last_throttle"] = Rat(75, 1000) ]_vars

\* three notifications of 10 revolutions, an evaluation after the first and
\* one after the third: 0.25, then 0.075
C23_Witness ==
    /\ notification_count = 3
    /\ no_rotation_count = 2
    /\ commands = 2
    /\ control[1].throttle = Rat(75, 1000)
    /\ shared_data["last_throttle"] = Rat(75, 1000)

\* C24: once the revolution count has stopped growing (the link is gone, or
\* the last notification repeated the count) every evaluated tick commands
\* less throttle than the one before, as long as that was not zero. Stated
\* for a throttle that was computed from a revolution count.
C24_SilentSensorRampsDown ==
    [][ ( /\ EvaluatedTick
          /\ HeadingUsable
          /\ notification_count >= 1
          /\ "last_throttle" \in DOMAIN shared_data
          /\ LinkEnded \/ no_rotation_count >= 1
          /\ control # NoControl
          /\ control[1].throttle # Zero )
        => RatLt(control'[1].throttle, control[1].throttle) ]_vars

\* C25: until the first heading has been published the loop commands
\* nothing and raises nothing, whether or not a cadence value has arrived.
C25_NoCommandBeforeData ==
    emitted = << >> => /\ control = NoControl
                       /\ commands = 0
                       /\ ctl = "loop" \/ ctl = "stopped"

\* the loop has been running through the whole discovery window, and
\* through a whole sensor session, without a heading
C25_Witness ==
    /\ emitted = << >>
    /\ sock = "recv"
    /\ ctl = "loop"
    /\ control = NoControl
    /\ \/ ble = "not_found" /\ notification_count = 0
       \/ ble = "released" /\ notification_count = MaxNotifications

\* C26: when the listening socket cannot be opened the control loop does not
\* go on iterating: no iteration is about to begin in a state where the bind
\* has failed.
C26_BindFailureIsFatal == sock = "failed" => ctl \notin {"loop", "read"}

\* C27: a tick that got as far as evaluating the policy leaves the loop
\* running for the next tick, whether or not apply_control raised.
C27_ActuatorFailureSkipsTick ==
    [][ ( /\ ctl = "read"
          /\ data_counter' = data_counter + 1
          /\ data_counter' % process_every_nth = 0 )
        => ctl' = "loop" ]_vars

\* C28: whatever was created and whichever cleanup call fails, once the loop
\* has ended the finally block has raised nothing and every cleanup step has
\* run: no actor is left alive and the recorder is stopped.
C28_CleanupBestEffort ==
    LoopEnded => /\ ~sim.raised
                 /\ sim.alive = {}
                 /\ ~sim.recording

\* C30: after the operator has stopped the loop, the step the link manager is
\* in is its last: it starts no further scan, backoff or connection attempt.
C30_StopEndsLinkManager ==
    [][ (ctl = "stopped" /\ ble' # ble) => LinkEnded' ]_vars

\* C31: the step that ends the control loop while the link is subscribed also
\* releases the link: the control session never ends with the subscription
\* still held.
C31_TerminationReleasesLink ==
    [][ (ble = "subscribed" /\ ~LoopEnded /\ LoopEnded') => ble' # "subscribed" ]_vars

C33_LastThrottleIsCommanded ==
    [][ (EvaluatedTick /\ "last_throttle" \in DOMAIN shared_data)
        => shared_data'["last_throttle"] = control'[1].throttle ]_vars

\* C34: a notification whose payload is shorter than the 7 bytes of a
\* measurement changes neither the stored reading nor the stall counter.
C34_ShortPayloadChangesNothing ==
    [][ (sensor # << >> /\ Len(Head(sensor)) < 7)
        => /\ Reading(shared_data') = Reading(shared_data)
           /\ no_rotation_count' = no_rotation_count ]_vars

\* C35: of two records separated by whitespace, both are published, in
\* order, wherever the chunk boundaries fall.
C35_WhitespaceCostsNoRecord ==
    (StreamDelivered /\ client.chunks >= 1
        /\ \E sep \in Separators :
             client.stream = client.records[1] \o sep \o client.records[2])
        => published = << RecordValue(client.records[1]), RecordValue(client.records[2]) >>

\* C36: every feed of a chunk ends: it publishes no more records than the
\* buffer had characters, every record published took at least one character
\* off the buffer, a feed that publishes nothing leaves the extended buffer as
\* it is, and the loop stops exactly where the buffer no longer decodes.
C36_FeedTerminates ==
    [][ (client.pos' > client.pos)
        => LET d == Utf8Decode(SubSeq(client.stream, client.pos + 1, client.pos'))
               fed == IF d.ok THEN buffer \o d.text ELSE buffer
           IN  /\ Len(buffer') + Len(emitted') <= Len(fed)
               /\ emitted' = << >> => buffer' = fed
               /\ d.ok => ~raw_decode(buffer').ok ]_vars

\* one feed completed the first record and published the second with it
C36_Witness ==
    /\ client.chunks >= 2
    /\ Len(emitted) = 2
    /\ buffer = << >>

\* C37: once the store holds a heading record the loop can use, it holds a
\* value the loop can use after every later step: no record, chunk or end of
\* stream empties it again.
C37_HeadingStaysUsable ==
    [][ (latest_heading_data.t = "obj" /\ Truthy(latest_heading_data))
        => Truthy(latest_heading_data') ]_vars

\* C38: the policy is applied on the evaluated ticks also while no heading
\* record has been published, with steer 0.0; and while no cadence reading
\* has been received an evaluation takes the low-revolution branch to its
\* end: the throttle it returns is the one it stores as last_throttle.
C38_PolicyAppliedWithoutData ==
    /\ []( (emitted = << >> /\ ticks > process_every_nth)
           => /\ commands >= 1
              /\ control # NoControl
              /\ DblIsZero(control[1].steer) )
    /\ [][ (EvaluatedTick /\ HeadingUsable /\ notification_count = 0)
           => /\ "last_throttle" \in DOMAIN shared_data'
              /\ shared_data'["last_throttle"] = control'[1].throttle ]_vars

\* C39: between two successive readings with different event times, the
\* elapsed time the speed is computed from is the difference of the raw
\* event times modulo 65536, in units of 1/1024 s, also when the 16-bit
\* clock wrapped between them.
C39_ElapsedTimeWraps ==
    (notified # << >> /\ sensor # << >>
        /\ EventTimeRaw(Head(sensor)) # EventTimeRaw(notified[1].data))
        => LET t1_raw == EventTimeRaw(notified[1].data)
               t2_raw == EventTimeRaw(Head(sensor))
               speed == SpeedTimeDiff(shared_data["last_wheel_event_time"],
                                      Rat(t2_raw, 1024))
           IN  /\ speed.computed
               /\ speed.time_diff = Rat((t2_raw - t1_raw) % 65536, 1024)

\* C40: an evaluation that raises inside process_heading_data (the record is
\* not an object, its heading is not a number, or the branch taken reads a
\* last_throttle that is not in the store) commands steer 0.0 and throttle
\* 0.1 and leaves the store, last_throttle included, and the stall counter
\* as they were.
C40_FallbackLeavesStateUnchanged ==
    [][ ( /\ EvaluatedTick
          /\ \/ ~HeadingUsable
             \/ /\ ReadsLastThrottle(shared_data, no_rotation_count)
                /\ "last_throttle" \notin DOMAIN shared_data )
        => /\ control' = << [steer |-> DblZero, throttle |-> Rat(1, 10)] >>
           /\ shared_data' = shared_data
           /\ no_rotation_count' = no_rotation_count ]_vars

\* an evaluation on a record that is not usable has commanded 0.1 while the
\* store keeps the 0.25 of the evaluation before it
C40_Witness ==
    /\ commands = 2
    /\ ~HeadingUsable
    /\ control[1].throttle = Rat(1, 10)
    /\ "last_throttle" \in DOMAIN shared_data
    /\ shared_data["last_throttle"] = Rat(1, 4)
    /\ shared_data["cumulative_wheel_revolutions"] = 10

====
